---- MODULE Spec2Model ----
(***************************************************************************)
(* Relationship reconciliation of the Jira -> OpenProject importer         *)
(* (create-relationships.js): the existence oracle, the check-then-create  *)
(* relationship creator, the first pass over the issue batch and the       *)
(* single retry pass over the deferred relationships.                      *)
(*                                                                         *)
(* The OpenProject server is the environment: it holds the relations and   *)
(* the parent links, answers each request or fails it, and refuses a       *)
(* relation between two work packages that are already connected.          *)
(*                                                                         *)
(* The last section models the loop of migrateIssues that builds the       *)
(* key -> id Map.                                                          *)
(***************************************************************************)
EXTENDS Integers, Sequences, FiniteSets, TLC

VARIABLES
    relations,              \* server: the relations, records [from, to, type]
    preexisting,            \* server: the relations it held when the process started
    parentOf,               \* server: work package id -> id of its parent, or Undefined
    issueToWorkPackageMap,  \* module state: issue key -> work package id, or Undefined
    missingRelationships,   \* module state: the Set of JSON texts, in insertion order
    issues,                 \* the issue batch handed to createRelationships
    calls,                  \* the key->id objects handed to createRelationships so far
    pc,                     \* where createRelationships stands
    i,                      \* first pass: index of the issue being handled
    j,                      \* first pass: index of the next link of issue i
    retryRelationships,     \* retry pass: the parsed entries being replayed
    k,                      \* retry pass: index of the next entry
    call,                   \* createRelationship: its arguments and what the oracle saw
    step,                   \* createRelationship: the request in flight, or "none"
    outcome,                \* how the last createRelationship call ended
    logged,                 \* console: number of lines of each kind, in this run
    failures,               \* number of requests that have failed so far
    result,                 \* what the last createRelationships call returned
    jiraIssues,             \* migrateIssues: the Jira issues, in the order fetched
    skipUpdates,            \* migrateIssues: its parameter
    openProjectWorkPackagesCache,  \* migrateIssues: issue key -> cached work package
    workPackages,           \* server: issue key -> the work package carrying it
    written,                \* keys for which createWorkPackage or updateWorkPackage returned
    mpc,                    \* where migrateIssues stands
    at,                     \* migrateIssues: index of the issue of this iteration
    existingWorkPackage,    \* migrateIssues: local of the iteration
    processed,              \* migrateIssues: counter
    skipped,                \* migrateIssues: counter
    errors,                 \* migrateIssues: counter
    migratedMap,            \* migrateIssues: its local Map issueToWorkPackageMap
    console                 \* migrateIssues: the lines printed per issue, <<kind, key>>

vars == <<relations, preexisting, parentOf, issueToWorkPackageMap, missingRelationships, issues,
          calls, pc, i, j, retryRelationships, k, call, step, outcome, logged,
          failures, result, jiraIssues, skipUpdates, openProjectWorkPackagesCache,
          workPackages, written, mpc, at, existingWorkPackage, processed, skipped,
          errors, migratedMap, console>>

migrateVars == <<jiraIssues, skipUpdates, openProjectWorkPackagesCache, workPackages,
                 written, mpc, at, existingWorkPackage, processed, skipped, errors,
                 migratedMap, console>>
serverVars == <<relations, preexisting, parentOf>>
passVars == <<issueToWorkPackageMap, missingRelationships, issues, calls, pc, i, j,
              retryRelationships, k, result>>

-----------------------------------------------------------------------------
(* Bounds of the model.                                                    *)

\* links of one issue
MaxLinks == 1
\* creation timestamps are 1..MaxTime
MaxTime == 2
\* calls of createRelationships in one process
MaxRuns == 2
\* requests the server fails in one behaviour
MaxFailures == 1

-----------------------------------------------------------------------------
(* Values.                                                                 *)

\* what Map.get answers for a missing key, what a function without return
\* value returns, and the value of an absent field; falsy
Undefined == 0

Falsy(v) == v = Undefined

\* the issue keys: two issues of the batch and one issue outside it
BatchKeys == <<"PROJ-1", "PROJ-5">>
OutsideKey == "PROJ-999"
Keys == {BatchKeys[n] : n \in 1..Len(BatchKeys)} \cup {OutsideKey}

\* the work package the target project holds for an issue key
WorkPackageOf(key) ==
    CASE key = "PROJ-1" -> 7
      [] key = "PROJ-5" -> 42
      [] OTHER -> 99

WpIds == {WorkPackageOf(key) : key \in Keys}

RelationTypes ==
    {"blocks", "blocked", "relates", "partof", "includes", "duplicates", "duplicated"}

\* Jira's link types, each with its outward and its inward verb
LinkTypes ==
    { [outward |-> "blocks", inward |-> "is blocked by"],
      [outward |-> "relates to", inward |-> "relates to"],
      [outward |-> "is parent of", inward |-> "is child of"],
      [outward |-> "duplicates", inward |-> "is duplicated by"],
      [outward |-> "clones", inward |-> "is cloned by"] }

-----------------------------------------------------------------------------
(* The OpenProject server, as the requests of the code see it.             *)

\* href of a work package in a response
Href(id) == <<"api", "v3", "work_packages", ToString(id)>>

\* GET /work_packages/{id}: the parent link and the children links
WorkPackageResponse(id) ==
    [parent |-> IF parentOf[id] = Undefined THEN <<>> ELSE Href(parentOf[id]),
     children |-> {Href(c) : c \in {w \in WpIds : parentOf[w] = id}}]

\* GET /relations with the filters [{from: f}, {to: f}], which the server
\* combines with AND; each filter is operator "=" over a list of values
RelationsResponse(filters) ==
    LET elements == {r \in relations :
                        /\ ToString(r.from) \in filters.from
                        /\ ToString(r.to) \in filters.to}
    IN [total |-> Cardinality(elements), elements |-> elements]

\* the server refuses a relation between two work packages that already
\* have one, in either direction, or that are parent and child
ServerAccepts(fromId, toId) ==
    /\ fromId # toId
    /\ ~\E r \in relations : {r.from, r.to} = {fromId, toId}
    /\ parentOf[fromId] # toId
    /\ parentOf[toId] # fromId

-----------------------------------------------------------------------------
(* The existence oracle.                                                   *)

getHrefId(href) == IF href = <<>> THEN "undefined" ELSE href[Len(href)]

\* the check with the children links left out
checkParentOnly(fromId, toId, ok) ==
    ok /\ getHrefId(WorkPackageResponse(fromId).parent) = ToString(toId)

\* the check counting a failed fetch as a parent link
checkParentFailClosed(fromId, toId, ok) ==
    ok => getHrefId(WorkPackageResponse(fromId).parent) = ToString(toId)
          \/ \E child \in WorkPackageResponse(fromId).children :
                getHrefId(child) = ToString(toId)

\* ok: the server answered the work package fetch
checkParentRelationship(fromId, toId, ok) ==
    /\ ok
    /\ LET response == WorkPackageResponse(fromId)
           toIdStr == ToString(toId)
       IN \/ getHrefId(response.parent) = toIdStr
          \/ \E child \in response.children : getHrefId(child) = toIdStr

\* the filters of one direction only
ForwardFilters(fromId, toId) ==
    [from |-> {ToString(fromId)}, to |-> {ToString(toId)}]

\* the filters with one id missing from the "to" values
LopsidedFilters(fromId, toId) ==
    [from |-> {ToString(fromId), ToString(toId)}, to |-> {ToString(toId)}]

RelationFilters(fromId, toId) ==
    LET filter == {ToString(fromId), ToString(toId)}
    IN [from |-> filter, to |-> filter]

\* the check that needs two matches
RelationQueryMoreThanOne(fromId, toId, ok) ==
    ok /\ RelationsResponse(RelationFilters(fromId, toId)).total > 1

\* the general relation check alone; ok: the server answered the query
RelationQueryExists(fromId, toId, ok) ==
    ok /\ RelationsResponse(RelationFilters(fromId, toId)).total > 0

\* wpOk, relOk: the server answered the fetch, the query
checkExistingRelationship(fromId, toId, wpOk, relOk) ==
    IF checkParentRelationship(fromId, toId, wpOk)
    THEN TRUE
    ELSE RelationQueryExists(fromId, toId, relOk)

-----------------------------------------------------------------------------
(* The console, counted by kind of line.                                   *)

LogKinds ==
    {"created", "exists", "createError", "checkError", "deferred", "dupSkipped",
     "stillMissing"}

NoLines == [kind \in LogKinds |-> 0]

Log(lines, kind) == [lines EXCEPT ![kind] = @ + 1]

\* a request is answered, or (within the bound) fails
Answers == {TRUE} \cup {ok \in {FALSE} : failures < MaxFailures}

Count(ok) == IF ok THEN failures ELSE failures + 1

-----------------------------------------------------------------------------
(* createRelationship: check, then create.                                 *)

NoCall ==
    [fromId |-> Undefined, toId |-> Undefined, type |-> "", fromKey |-> "",
     toKey |-> "", site |-> "", wpOk |-> FALSE, relOk |-> FALSE]

\* createRelationship going straight to its creation request
BeginUnchecked(fromId, toId, type, fromKey, toKey, site) ==
    /\ call' = [fromId |-> fromId, toId |-> toId, type |-> type, fromKey |-> fromKey,
                toKey |-> toKey, site |-> site, wpOk |-> FALSE, relOk |-> FALSE]
    /\ step' = "post"
    /\ outcome' = "none"

\* the entry of createRelationship, up to the first request of the oracle
BeginCall(fromId, toId, type, fromKey, toKey, site) ==
    /\ call' = [fromId |-> fromId, toId |-> toId, type |-> type, fromKey |-> fromKey,
                toKey |-> toKey, site |-> site, wpOk |-> FALSE, relOk |-> FALSE]
    /\ step' = "checkParent"
    /\ outcome' = "none"

\* createRelationship letting a failed creation out
Rethrows(posted) == ~posted

\* every error inside createRelationship is caught and logged there
createRelationshipThrows(posted) == FALSE

\* await: the pass goes on when the call it made has returned
NotAwaited == TRUE

Awaited == step = "none"

JSONstringify(fromKey, toKey, type) ==
    <<"fromKey", fromKey, "toKey", toKey, "type", type>>

JSONparse(text) == [fromKey |-> text[2], toKey |-> text[4], type |-> text[6]]

\* an array push: the value added whether or not it is there
ArrayPush(set, value) == Append(set, value)

\* the value not added
SetLeft(set, value) == set

\* Set.add: a value already in the Set is not added again
SetAdd(set, value) ==
    IF \E n \in 1..Len(set) : set[n] = value THEN set ELSE Append(set, value)

\* the answer to GET /work_packages/{fromId} arrives, or the request fails
ParentResponse ==
    /\ step = "checkParent"
    /\ \E ok \in Answers :
         /\ call' = [call EXCEPT !.wpOk = ok]
         /\ failures' = Count(ok)
         /\ IF checkParentRelationship(call.fromId, call.toId, ok)
            THEN /\ step' = "none"
                 /\ outcome' = "exists"
                 /\ logged' = Log(logged, "exists")
            ELSE /\ step' = "query"
                 /\ outcome' = outcome
                 /\ logged' = IF ok THEN logged ELSE Log(logged, "checkError")
    /\ UNCHANGED <<migrateVars, serverVars, passVars>>

\* the answer to GET /relations arrives, or the request fails
QueryResponse ==
    /\ step = "query"
    /\ \E ok \in Answers :
         /\ call' = [call EXCEPT !.relOk = ok]
         /\ failures' = Count(ok)
         /\ IF RelationQueryExists(call.fromId, call.toId, ok)
            THEN /\ step' = "none"
                 /\ outcome' = "exists"
                 /\ logged' = Log(logged, "exists")
            ELSE /\ step' = "post"
                 /\ outcome' = outcome
                 /\ logged' = IF ok THEN logged ELSE Log(logged, "checkError")
    /\ UNCHANGED <<migrateVars, serverVars, passVars>>

\* the answer to POST /work_packages/{fromId}/relations arrives: the server
\* created the relation, refused it, or the request failed
PostResponse ==
    /\ step = "post"
    /\ \E ok \in Answers :
         LET posted == ok /\ ServerAccepts(call.fromId, call.toId)
         IN /\ failures' = Count(ok)
            /\ relations' =
                  IF posted
                  THEN relations \cup
                         {[from |-> call.fromId, to |-> call.toId, type |-> call.type]}
                  ELSE relations
            /\ outcome' = IF posted THEN "created" ELSE "error"
            /\ logged' = Log(logged, IF posted THEN "created" ELSE "createError")
            /\ missingRelationships' =
                  IF createRelationshipThrows(posted) /\ call.site = "link"
                  THEN SetAdd(missingRelationships,
                              JSONstringify(call.fromKey, call.toKey, call.type))
                  ELSE missingRelationships
            \* the call for the epic link is not inside a try block: what it
            \* throws ends the passes, in the catch of createRelationships
            /\ pc' = IF createRelationshipThrows(posted) /\ call.site = "epic"
                     THEN "return"
                     ELSE pc
    /\ step' = "none"
    /\ UNCHANGED <<migrateVars, preexisting, parentOf, call, issueToWorkPackageMap, issues, calls, i, j,
                   retryRelationships, k, result>>

-----------------------------------------------------------------------------
(* The issue link classifier.                                              *)

\* a > b and a < b of JavaScript, where b may be undefined
Greater(a, b) == b # Undefined /\ a > b
Less(a, b) == b # Undefined /\ a < b

\* the classifier with the two verbs of the parent link type exchanged
relationTypeExchanged(link) ==
    IF link.dir = "outward"
    THEN CASE link.type.outward = "blocks" -> "blocks"
           [] link.type.outward = "relates to" -> "relates"
           [] link.type.outward = "is parent of" -> "partof"
           [] link.type.outward = "duplicates" -> "duplicates"
           [] OTHER -> "relates"
    ELSE CASE link.type.inward = "is blocked by" -> "blocked"
           [] link.type.inward = "relates to" -> "relates"
           [] link.type.inward = "is child of" -> "includes"
           [] link.type.inward = "is duplicated by" -> "duplicated"
           [] OTHER -> "relates"

relationType(link) ==
    IF link.dir = "outward"
    THEN CASE link.type.outward = "blocks" -> "blocks"
           [] link.type.outward = "relates to" -> "relates"
           [] link.type.outward = "is parent of" -> "includes"
           [] link.type.outward = "duplicates" -> "duplicates"
           [] OTHER -> "relates"
    ELSE CASE link.type.inward = "is blocked by" -> "blocked"
           [] link.type.inward = "relates to" -> "relates"
           [] link.type.inward = "is child of" -> "partof"
           [] link.type.inward = "is duplicated by" -> "duplicated"
           [] OTHER -> "relates"

\* the tie-break applied only to the links whose target is in the mapping
skipWhenMapped(issue, link) ==
    /\ ~Falsy(issueToWorkPackageMap[link.key])
    /\ IF link.dir = "outward"
       THEN link.type.outward = "duplicates" /\ Greater(issue.created, link.created)
       ELSE link.type.inward = "is duplicated by" /\ Less(issue.created, link.created)

shouldSkip(issue, link) ==
    IF link.dir = "outward"
    THEN link.type.outward = "duplicates" /\ Greater(issue.created, link.created)
    ELSE link.type.inward = "is duplicated by" /\ Less(issue.created, link.created)

-----------------------------------------------------------------------------
(* createRelationships: the seeding, the first pass, the retry pass.       *)

NoEpic == ""

\* the key->id objects a caller may hand over: the work packages of all
\* keys but at most one
CallerMaps ==
    {[key \in Keys |-> IF key = absent THEN Undefined ELSE WorkPackageOf(key)] :
        absent \in Keys \cup {"none"}}

\* the counts of the console lines, as a summary of the run
Summary ==
    [created |-> logged["created"],
     skipped |-> logged["exists"],
     deferred |-> logged["deferred"],
     failed |-> logged["createError"] + logged["stillMissing"]]

\* a summary returned
ReturnsSummary == <<Summary>>

\* what createRelationships returns: it ends without a return statement
ReturnValue == <<>>

\* the Map replaced by the caller's object
MapReplace(map, object) == object

\* Map.set for every entry of the caller's object
MapSet(map, object) ==
    [key \in Keys |-> IF object[key] # Undefined THEN object[key] ELSE map[key]]

\* a call of createRelationships, up to the first issue of the first pass
Enter(issueKeyToWorkPackageIdMap) ==
    /\ calls' = Append(calls, issueKeyToWorkPackageIdMap)
    /\ issueToWorkPackageMap' = MapSet(issueToWorkPackageMap, issueKeyToWorkPackageIdMap)
    /\ pc' = "issue"
    /\ i' = 1
    /\ result' = <<"pending">>
    /\ logged' = NoLines
    /\ outcome' = "none"
    /\ UNCHANGED <<migrateVars, serverVars, missingRelationships, issues, j, retryRelationships, k,
                   call, step, failures>>

\* the first call of the process
Start ==
    /\ pc = "idle"
    /\ \E issueKeyToWorkPackageIdMap \in CallerMaps : Enter(issueKeyToWorkPackageIdMap)

\* a later call of the same process
Restart ==
    /\ pc = "done"
    /\ Len(calls) < MaxRuns
    /\ \E issueKeyToWorkPackageIdMap \in CallerMaps : Enter(issueKeyToWorkPackageIdMap)

\* the issue handled whether or not its key is in the mapping
SourceNeverMissing(fromWorkPackageId) == FALSE

\* if (!fromWorkPackageId) return
SourceMissing(fromWorkPackageId) == Falsy(fromWorkPackageId)

\* handleRelationships(issues[i]), up to the epic link
HandleIssue ==
    /\ pc = "issue"
    /\ Awaited
    /\ i <= Len(issues)
    /\ LET issue == issues[i]
           fromWorkPackageId == issueToWorkPackageMap[issue.key]
       IN IF SourceMissing(fromWorkPackageId)
          THEN /\ i' = i + 1
               /\ pc' = pc
          ELSE /\ i' = i
               /\ pc' = "epic"
    /\ UNCHANGED <<migrateVars, serverVars, issueToWorkPackageMap, missingRelationships, issues,
                   calls, j, retryRelationships, k, call, step, outcome, logged,
                   failures, result>>

\* the epic link turned round
EpicRequestReversed(fromWorkPackageId, epicWorkPackageId) ==
    [fromId |-> epicWorkPackageId, toId |-> fromWorkPackageId, type |-> "partof"]

\* the epic link yields "partof" from the issue to its epic
EpicRequest(fromWorkPackageId, epicWorkPackageId) ==
    [fromId |-> fromWorkPackageId, toId |-> epicWorkPackageId, type |-> "partof"]

\* the epic link of issues[i]
HandleEpic ==
    /\ pc = "epic"
    /\ Awaited
    /\ LET issue == issues[i]
           fromWorkPackageId == issueToWorkPackageMap[issue.key]
           epicKey == issue.epic
           epicWorkPackageId == issueToWorkPackageMap[epicKey]
       IN IF epicKey = NoEpic
          THEN UNCHANGED <<missingRelationships, call, step, outcome, logged>>
          ELSE IF ~Falsy(epicWorkPackageId)
          THEN /\ LET request == EpicRequest(fromWorkPackageId, epicWorkPackageId)
                  IN BeginCall(request.fromId, request.toId, request.type,
                               issue.key, epicKey, "epic")
               /\ UNCHANGED <<missingRelationships, logged>>
          ELSE /\ missingRelationships' =
                    SetAdd(missingRelationships,
                           JSONstringify(issue.key, epicKey, "partof"))
               /\ logged' = Log(logged, "deferred")
               /\ UNCHANGED <<call, step, outcome>>
    /\ pc' = "links"
    /\ j' = 1
    /\ UNCHANGED <<migrateVars, serverVars, issueToWorkPackageMap, issues, calls, i,
                   retryRelationships, k, failures, result>>

\* the links taken from the last to the first
LastLinkFirst(issue, n) == issue.issuelinks[Len(issue.issuelinks) + 1 - n]

\* for (const link of issue.fields.issuelinks): the n-th link taken
NextLink(issue, n) == issue.issuelinks[n]

\* the next link of issues[i], or the end of handleRelationships
HandleLink ==
    /\ pc = "links"
    /\ Awaited
    /\ LET issue == issues[i]
           fromWorkPackageId == issueToWorkPackageMap[issue.key]
       IN IF j > Len(issue.issuelinks)
          THEN /\ pc' = "issue"
               /\ i' = i + 1
               /\ j' = j
               /\ UNCHANGED <<missingRelationships, call, step, outcome, logged>>
          ELSE LET link == NextLink(issue, j)
                   relatedIssueKey == link.key
                   toWorkPackageId == issueToWorkPackageMap[relatedIssueKey]
               IN /\ pc' = pc
                  /\ i' = i
                  /\ j' = j + 1
                  /\ IF shouldSkip(issue, link)
                     THEN /\ logged' = Log(logged, "dupSkipped")
                          /\ UNCHANGED <<missingRelationships, call, step, outcome>>
                     ELSE IF ~Falsy(toWorkPackageId)
                     THEN /\ BeginCall(fromWorkPackageId, toWorkPackageId,
                                       relationType(link), issue.key,
                                       relatedIssueKey, "link")
                          /\ UNCHANGED <<missingRelationships, logged>>
                     ELSE /\ missingRelationships' =
                               SetAdd(missingRelationships,
                                      JSONstringify(issue.key, relatedIssueKey,
                                                    relationType(link)))
                          /\ logged' = Log(logged, "deferred")
                          /\ UNCHANGED <<call, step, outcome>>
    /\ UNCHANGED <<migrateVars, serverVars, issueToWorkPackageMap, issues, calls,
                   retryRelationships, k, failures, result>>

\* the loop over the issues left after the first issue
FirstIssueDone == i > 1

\* the loop over the issues never left
NeverDone == FALSE

\* the loop over the issues has ended
FirstPassDone == i > Len(issues)

\* the Set left as it is
KeepPending(set) == set

\* Set.clear
SetClear(set) == <<>>

\* retryMissingRelationships, up to its loop
StartRetry ==
    /\ pc = "issue"
    /\ Awaited
    /\ FirstPassDone
    /\ IF Len(missingRelationships) = 0
       THEN /\ pc' = "return"
            /\ UNCHANGED <<missingRelationships, retryRelationships, k>>
       ELSE /\ retryRelationships' =
                 [n \in 1..Len(missingRelationships) |->
                    JSONparse(missingRelationships[n])]
            /\ missingRelationships' = SetClear(missingRelationships)
            /\ k' = 1
            /\ pc' = "retry"
    /\ UNCHANGED <<migrateVars, serverVars, issueToWorkPackageMap, issues, calls, i, j, call, step,
                   outcome, logged, failures, result>>

\* the unresolved entry put back into the Set
Requeue(set, rel) == SetAdd(set, JSONstringify(rel.fromKey, rel.toKey, rel.type))

\* an entry that does not resolve is logged, and the Set left alone
DropEntry(set, rel) == set

\* the next entry of the retry pass, or its end
RetryStep ==
    /\ pc = "retry"
    /\ Awaited
    /\ IF k > Len(retryRelationships)
       THEN /\ pc' = "return"
            /\ k' = k
            /\ UNCHANGED <<missingRelationships, call, step, outcome, logged>>
       ELSE LET rel == retryRelationships[k]
                fromWorkPackageId == issueToWorkPackageMap[rel.fromKey]
                toWorkPackageId == issueToWorkPackageMap[rel.toKey]
            IN /\ pc' = pc
               /\ k' = k + 1
               /\ IF ~Falsy(fromWorkPackageId) /\ ~Falsy(toWorkPackageId)
                  THEN /\ BeginCall(fromWorkPackageId, toWorkPackageId, rel.type,
                                    rel.fromKey, rel.toKey, "retry")
                       /\ UNCHANGED <<missingRelationships, logged>>
                  ELSE /\ logged' = Log(logged, "stillMissing")
                       /\ missingRelationships' = DropEntry(missingRelationships, rel)
                       /\ UNCHANGED <<call, step, outcome>>
    /\ UNCHANGED <<migrateVars, serverVars, issueToWorkPackageMap, issues,
                   calls, i, j, retryRelationships, failures, result>>

\* createRelationships returns; the locals of its calls are gone
Return ==
    /\ pc = "return"
    /\ Awaited
    /\ pc' = "done"
    /\ result' = ReturnValue
    /\ i' = 0
    /\ j' = 0
    /\ k' = 0
    /\ retryRelationships' = <<>>
    /\ call' = NoCall
    /\ UNCHANGED <<migrateVars, serverVars, issueToWorkPackageMap, missingRelationships, issues,
                   calls, step, outcome, logged, failures>>

-----------------------------------------------------------------------------
(* The inputs.                                                             *)

\* Jira records a link once, and shows it on both issues: outward on the
\* issue it starts from, inward on the issue it points to
LinkFacts ==
    {f \in [type : LinkTypes, from : Keys, to : Keys] :
        /\ f.from # f.to
        /\ f.from # OutsideKey \/ f.to # OutsideKey}

LinkFactLists == UNION {[1..n -> LinkFacts] : n \in 0..MaxLinks}

IssueLinks(key, facts, created) ==
    LET mine == SelectSeq(facts, LAMBDA f : f.from = key \/ f.to = key)
    IN [n \in 1..Len(mine) |->
          IF mine[n].from = key
          THEN [dir |-> "outward", type |-> mine[n].type, key |-> mine[n].to,
                created |-> created[mine[n].to]]
          ELSE [dir |-> "inward", type |-> mine[n].type, key |-> mine[n].from,
                created |-> created[mine[n].from]]]

\* the batches over given lists of link facts and given creation times
BatchesOf(lists, times) ==
    {[n \in 1..Len(BatchKeys) |->
        [key |-> BatchKeys[n],
         created |-> created[BatchKeys[n]],
         epic |-> epics[n],
         issuelinks |-> IssueLinks(BatchKeys[n], facts, created)]] :
      created \in times,
      epics \in {e \in [1..Len(BatchKeys) -> Keys \cup {NoEpic}] :
                   \A n \in 1..Len(BatchKeys) : e[n] # BatchKeys[n]},
      facts \in lists}

Batches ==
    BatchesOf(LinkFactLists, {c \in [Keys -> 1..MaxTime] : c[OutsideKey] = 1})

\* the target project before the run: nothing between the work packages, one
\* relation, or one parent link
InitialRelations ==
    {{}} \cup {{[from |-> a, to |-> b, type |-> "relates"]} :
                 a \in {WorkPackageOf(BatchKeys[2])}, b \in {WorkPackageOf(BatchKeys[1])}}

InitialParents ==
    {[w \in WpIds |-> Undefined],
     [w \in WpIds |-> IF w = WorkPackageOf(BatchKeys[2])
                      THEN WorkPackageOf(BatchKeys[1]) ELSE Undefined]}

\* no entry in a Map
NoEntries == [key \in {} |-> Undefined]

\* let processed = 0, skipped = 0, errors = 0 and the new Map, before the
\* loop over the batch
LoopEntry(position, batch, flag, held) ==
    /\ jiraIssues = batch
    /\ skipUpdates = flag
    /\ workPackages = held
    /\ openProjectWorkPackagesCache = IF flag THEN held ELSE Undefined
    /\ written = {}
    /\ mpc = position
    /\ at = 0
    /\ existingWorkPackage = Undefined
    /\ processed = 0
    /\ skipped = 0
    /\ errors = 0
    /\ migratedMap = NoEntries
    /\ console = <<>>

\* a process that does not run migrateIssues
NotMigrating == LoopEntry("off", <<>>, FALSE, [key \in Keys |-> Undefined])

\* the process after module load, before the first call, given the batch it
\* will be called with
Loaded(batch) ==
    /\ NotMigrating
    /\ relations \in InitialRelations
    /\ preexisting = relations
    /\ parentOf \in InitialParents
    /\ relations = {} \/ parentOf = [w \in WpIds |-> Undefined]
    /\ issueToWorkPackageMap = [key \in Keys |-> Undefined]
    /\ missingRelationships = <<>>
    /\ issues = batch
    /\ calls = <<>>
    /\ pc = "idle"
    /\ i = 0
    /\ j = 0
    /\ retryRelationships = <<>>
    /\ k = 0
    /\ call = NoCall
    /\ step = "none"
    /\ outcome = "none"
    /\ logged = NoLines
    /\ failures = 0
    /\ result = <<"pending">>

Init == \E batch \in Batches : Loaded(batch)

Next ==
    \/ Start
    \/ HandleIssue
    \/ HandleEpic
    \/ HandleLink
    \/ ParentResponse
    \/ QueryResponse
    \/ PostResponse
    \/ StartRetry
    \/ RetryStep
    \/ Return

Spec == Init /\ [][Next]_vars

-----------------------------------------------------------------------------
(* createRelationship on its own: one call, with any arguments, against    *)
(* any state of the target project.                                        *)

\* relations the target project holds beforehand, in SpecCreate
MaxStored == 1

AllRelations ==
    {r \in [from : WpIds, to : WpIds, type : RelationTypes] : r.from # r.to}

RECURSIVE RelationSets(_)
RelationSets(n) ==
    IF n = 0
    THEN {{}}
    ELSE LET smaller == RelationSets(n - 1)
         IN smaller \cup {rs \cup {r} : rs \in smaller, r \in AllRelations}

\* at most one work package has a parent
ParentLinks ==
    {[w \in WpIds |-> IF w = child THEN parent ELSE Undefined] :
        child \in WpIds, parent \in WpIds \cup {Undefined}} \ {[w \in WpIds |-> w]}

\* what the server's own rule allows it to hold
ServerConsistent(rs, parents) ==
    /\ \A w \in WpIds : parents[w] # w
    /\ \A r1, r2 \in rs : {r1.from, r1.to} = {r2.from, r2.to} => r1 = r2
    /\ \A r \in rs : parents[r.from] # r.to /\ parents[r.to] # r.from

InitCreate ==
    /\ NotMigrating
    /\ relations \in RelationSets(MaxStored)
    /\ preexisting = relations
    /\ parentOf \in ParentLinks
    /\ ServerConsistent(relations, parentOf)
    /\ issueToWorkPackageMap = [key \in Keys |-> Undefined]
    /\ missingRelationships = <<>>
    /\ issues = <<>>
    /\ calls = <<>>
    /\ pc = "direct"
    /\ i = 0
    /\ j = 0
    /\ retryRelationships = <<>>
    /\ k = 0
    /\ call = NoCall
    /\ step = "none"
    /\ outcome = "none"
    /\ logged = NoLines
    /\ failures = 0
    /\ result = <<"pending">>

\* createRelationship(fromId, toId, type)
DirectCall ==
    /\ pc = "direct"
    /\ step = "none"
    /\ outcome = "none"
    /\ \E fromId \in WpIds, toId \in WpIds, type \in RelationTypes :
         /\ fromId # toId
         /\ BeginCall(fromId, toId, type, "", "", "direct")
    /\ UNCHANGED <<migrateVars, serverVars, passVars, logged, failures>>

NextCreate ==
    \/ DirectCall
    \/ ParentResponse
    \/ QueryResponse
    \/ PostResponse

SpecCreate == InitCreate /\ [][NextCreate]_vars

Connected(a, b) == \E r \in relations : {r.from, r.to} = {a, b}

ParentLinked(a, b) == parentOf[a] = b \/ parentOf[b] = a

C3_OracleSymmetric ==
    step # "none" =>
        \A wpOk \in BOOLEAN, relOk \in BOOLEAN :
            checkExistingRelationship(call.fromId, call.toId, wpOk, relOk)
                = checkExistingRelationship(call.toId, call.fromId, wpOk, relOk)

\* the oracle answered "exists" to (a, b) where the one relation of the pair
\* runs from b to a, and no parent link is involved
C3_Witness ==
    /\ step = "none"
    /\ outcome = "exists"
    /\ ~ParentLinked(call.fromId, call.toId)
    /\ \E r \in relations : r.from = call.toId /\ r.to = call.fromId
    /\ ~\E r \in relations : r.from = call.fromId /\ r.to = call.toId
    /\ checkExistingRelationship(call.toId, call.fromId, TRUE, TRUE)

-----------------------------------------------------------------------------
(* The first pass over the batch.                                          *)

\* the work package the caller's object of the first call names for issue x
Wp(x) == calls[1][issues[x].key]

Between(a, b) == {r \in relations : {r.from, r.to} = {a, b}}

\* nothing connected the two work packages when the process started
NoPrior(a, b) ==
    /\ ~ParentLinked(a, b)
    /\ ~\E r \in preexisting : {r.from, r.to} = {a, b}

NoEpicBetween(x, y) ==
    issues[x].epic # issues[y].key /\ issues[y].epic # issues[x].key

DuplicateType == [outward |-> "duplicates", inward |-> "is duplicated by"]

\* issue x carries an outward "duplicates" link to issue y, and issue y the
\* inward "is duplicated by" link to issue x, each with the other's timestamp
DuplicateLinked(x, y) ==
    /\ x # y
    /\ \E n \in 1..Len(issues[x].issuelinks) :
         issues[x].issuelinks[n] =
            [dir |-> "outward", type |-> DuplicateType, key |-> issues[y].key,
             created |-> issues[y].created]
    /\ \E n \in 1..Len(issues[y].issuelinks) :
         issues[y].issuelinks[n] =
            [dir |-> "inward", type |-> DuplicateType, key |-> issues[x].key,
             created |-> issues[x].created]

\* the first pass of the first call has handled every issue
FirstPassOver ==
    /\ Len(calls) = 1
    /\ pc \in {"retry", "return", "done"} \/ (pc = "issue" /\ i > Len(issues))

\* the symmetric duplicate link of x and y was the only thing between them,
\* both are in the mapping, and no request failed
DuplicateCase(x, y) ==
    /\ FirstPassOver
    /\ failures = 0
    /\ DuplicateLinked(x, y)
    /\ Wp(x) # Undefined
    /\ Wp(y) # Undefined
    /\ NoPrior(Wp(x), Wp(y))
    /\ NoEpicBetween(x, y)

\* C4: with X created before Y, X duplicating Y, and no request failing,
\* after the first pass over both issues (in either order) exactly one
\* relation connects the two work packages, and it is "duplicates" from X's
\* work package to Y's.
C4_DuplicatesOnceFromX ==
    \A x \in 1..Len(issues), y \in 1..Len(issues) :
        (DuplicateCase(x, y) /\ issues[x].created < issues[y].created)
            => Between(Wp(x), Wp(y)) =
                 {[from |-> Wp(x), to |-> Wp(y), type |-> "duplicates"]}

\* C5: with the two issues of a symmetric duplicate link created at
\* different times, whichever is the earlier one, and no request failing,
\* after the first pass over both issues exactly one relation connects the
\* two work packages (never none), and it starts from the work package of
\* the earlier-created issue.
C5_DuplicateOnceFromEarlier ==
    \A x \in 1..Len(issues), y \in 1..Len(issues) :
        (DuplicateCase(x, y) /\ issues[x].created # issues[y].created)
            => /\ Cardinality(Between(Wp(x), Wp(y))) = 1
               /\ \A r \in Between(Wp(x), Wp(y)) :
                    r.from = IF issues[x].created < issues[y].created
                             THEN Wp(x) ELSE Wp(y)

-----------------------------------------------------------------------------
(* The epic link.                                                          *)

\* HandleEpic, for an issue whose epic is in the mapping, enters
\* createRelationship with the issue's work package, the epic's and "partof"
EpicCallBegins ==
    (/\ pc = "epic"
     /\ step = "none"
     /\ issues[i].epic # NoEpic
     /\ calls[1][issues[i].epic] # Undefined)
        => /\ step' = "checkParent"
           /\ call'.fromId = calls[1][issues[i].key]
           /\ call'.toId = calls[1][issues[i].epic]
           /\ call'.type = "partof"

\* the call made for an epic link, nothing connecting the two work packages
EpicCallOpen ==
    /\ call.site = "epic"
    /\ step # "none"
    /\ ~Connected(call.fromId, call.toId)
    /\ ~ParentLinked(call.fromId, call.toId)

EpicCallCreates ==
    \/ step' # "none"
    \/ /\ outcome' = "created"
       /\ [from |-> call.fromId, to |-> call.toId, type |-> "partof"] \in relations'

-----------------------------------------------------------------------------
(* The relationships whose target never appears in the mapping.            *)

\* the (fromKey, toKey, type) of the epic link and of the links of issue x
\* that the tie-break does not suppress
Requested(x) ==
    (IF issues[x].epic = NoEpic
     THEN {}
     ELSE {<<issues[x].key, issues[x].epic, "partof">>})
    \cup {<<issues[x].key, issues[x].issuelinks[n].key, relationType(issues[x].issuelinks[n])>> :
            n \in {m \in 1..Len(issues[x].issuelinks) :
                     ~shouldSkip(issues[x], issues[x].issuelinks[m])}}

\* those of them, over the issues that are in the mapping, whose target is
\* not in the mapping of the first call
MissingForever ==
    {t \in UNION {Requested(x) : x \in {y \in 1..Len(issues) : Wp(y) # Undefined}} :
        calls[1][t[2]] = Undefined}

\* no relation made by the process touches the work package of a missing key
NothingCreatedFor(t) ==
    \A r \in relations \ preexisting :
        r.from # WorkPackageOf(t[2]) /\ r.to # WorkPackageOf(t[2])

-----------------------------------------------------------------------------
(* What the run returns.                                                   *)

-----------------------------------------------------------------------------
(* Several calls of createRelationships in one process, over the same      *)
(* batch.                                                                  *)

InitRerun ==
    /\ Init
    /\ relations = {}
    /\ parentOf = [w \in WpIds |-> Undefined]

NextRerun ==
    \/ Next
    \/ Restart

SpecRerun == InitRerun /\ [][NextRerun]_vars

\* the second call runs, with the key->id object of the first
SecondRunSameInputs == Len(calls) = 2 /\ calls[2] = calls[1]

RetryNeverResolves ==
    pc = "retry" =>
        \A n \in 1..Len(retryRelationships) :
            \/ Falsy(issueToWorkPackageMap[retryRelationships[n].fromKey])
            \/ Falsy(issueToWorkPackageMap[retryRelationships[n].toKey])

-----------------------------------------------------------------------------
(* The failures of the first pass.                                         *)

\* the first pass of the first call is over and the retry pass is about to
\* start
RetryPassStarts ==
    /\ Len(calls) = 1
    /\ pc = "issue"
    /\ FirstPassDone
    /\ step = "none"

PendingIn(set, fromKey, toKey, type) ==
    \E n \in 1..Len(set) : set[n] = JSONstringify(fromKey, toKey, type)

Pending(fromKey, toKey, type) == PendingIn(missingRelationships, fromKey, toKey, type)

\* C11: when the retry pass starts, the relation of the last link of the
\* first pass, both keys of which are in the mapping and the creation request
\* of which failed (refused by the server, or not answered), is in the Set of
\* the relationships to retry.
C11_FailedCreationQueuedForRetry ==
    (RetryPassStarts /\ call.site = "link" /\ outcome = "error")
        => Pending(call.fromKey, call.toKey, call.type)

-----------------------------------------------------------------------------
(* The order of the passes.                                                *)

FirstPass == {"issue", "epic", "links"}

\* retryMissingRelationships has been called in the current run
RetryPassBegun == pc \in {"retry", "return", "done"}

\* C12: in a run the retry pass starts once, from the end of the loop over
\* the issues with no call in flight, and the run does not end without it;
\* once it has started the run never is in its first pass again, and no
\* request of a first-pass call is in flight.
C12_RetryPassOnceAfterFirstPass ==
    /\ [][/\ (RetryPassBegun' /\ ~RetryPassBegun)
                => (pc = "issue" /\ i > Len(issues) /\ step = "none")
          /\ RetryPassBegun => (RetryPassBegun' /\ pc' # "issue")
          /\ pc' = "done" => RetryPassBegun]_vars
    /\ [](RetryPassBegun => /\ pc = "done" \/ i > Len(issues)
                            /\ step # "none" => call.site = "retry")

\* the retry pass is replaying its entries after a first pass that made
\* requests for both issues
C12_Witness ==
    /\ pc = "retry"
    /\ k > 1
    /\ logged["stillMissing"] >= 1
    /\ logged["created"] + logged["exists"] >= 2

-----------------------------------------------------------------------------
(* The failures of single relationships.                                   *)

\* epic links and links that handleRelationships has to handle in a run: the
\* ones of the issues that are in the mapping
ToHandle ==
    LET count(x) == (IF issues[x].epic = NoEpic THEN 0 ELSE 1) + Len(issues[x].issuelinks)
        mapped(x) == ~Falsy(calls[1][issues[x].key])
    IN (IF mapped(1) THEN count(1) ELSE 0) + (IF mapped(2) THEN count(2) ELSE 0)

\* epic links and links handled in the first pass, by their console lines
Handled ==
    logged["created"] + logged["exists"] + logged["createError"]
        + logged["deferred"] + logged["dupSkipped"]

\* C13: a request that fails leaves the pass where it stands (the call goes
\* on to its next request or returns, nothing is raised); a run in which a
\* request failed can always take its next step until it is over, and when
\* it is over every epic link and link of every mapped issue has been
\* handled and the retry pass has replayed every deferred relationship.
C13_FailureDoesNotAbortBatch ==
    /\ [][failures' > failures =>
             /\ step' \in {"query", "post", "none"}
             /\ UNCHANGED <<pc, i, j, k, missingRelationships>>]_vars
    /\ []((failures > 0 /\ pc # "done") => ENABLED <<Next>>_vars)
    /\ []((failures > 0 /\ pc = "done") =>
             /\ Handled = ToHandle
             /\ logged["stillMissing"] = Cardinality(MissingForever))

\* the creation request of the epic link of the first issue failed, and the
\* link of the second issue is being handled
C13_Witness ==
    /\ pc = "links"
    /\ i = 2
    /\ j = 1
    /\ Len(issues[2].issuelinks) = 1
    /\ step = "none"
    /\ outcome = "error"
    /\ call.site = "epic"
    /\ call.fromKey = issues[1].key
    /\ logged["createError"] = 1

-----------------------------------------------------------------------------
(* The classifier.                                                         *)

Verb(link) == IF link.dir = "outward" THEN link.type.outward ELSE link.type.inward

\* C14: the classifier gives every link, by its direction and verb, the
\* relation type of the mapping table; and the relation type of the call that
\* handleRelationships has just made for a link, and of every relationship it
\* has deferred for a link, is the one of the table.
C14_ClassifierFollowsTable ==
    LET MappingTable ==
        [outward |-> [verb \in {l.outward : l \in LinkTypes} |->
                        CASE verb = "blocks" -> "blocks"
                          [] verb = "relates to" -> "relates"
                          [] verb = "is parent of" -> "includes"
                          [] verb = "duplicates" -> "duplicates"
                          [] OTHER -> "relates"],
         inward |-> [verb \in {l.inward : l \in LinkTypes} |->
                        CASE verb = "is blocked by" -> "blocked"
                          [] verb = "relates to" -> "relates"
                          [] verb = "is child of" -> "partof"
                          [] verb = "is duplicated by" -> "duplicated"
                          [] OTHER -> "relates"]]
    IN
        /\ \A l \in LinkTypes, dir \in {"outward", "inward"}, key \in Keys :
              LET link == [dir |-> dir, type |-> l, key |-> key, created |-> 1]
              IN relationType(link) = MappingTable[dir][Verb(link)]
        /\ (pc = "links" /\ step = "checkParent" /\ call.site = "link") =>
              call.type = MappingTable[issues[i].issuelinks[j - 1].dir]
                                      [Verb(issues[i].issuelinks[j - 1])]
        /\ (pc = "links" /\ Len(calls) = 1) =>
              \A n \in 1..Len(missingRelationships) :
                  LET rel == JSONparse(missingRelationships[n])
                  IN \/ /\ rel.type = "partof"
                        /\ \E x \in 1..i :
                              issues[x].key = rel.fromKey /\ issues[x].epic = rel.toKey
                     \/ \E x \in 1..i : \E m \in 1..Len(issues[x].issuelinks) :
                           /\ issues[x].key = rel.fromKey
                           /\ issues[x].issuelinks[m].key = rel.toKey
                           /\ rel.type = MappingTable[issues[x].issuelinks[m].dir]
                                                     [Verb(issues[x].issuelinks[m])]

\* the call for an inward "is child of" link has begun, with "partof"
C14_Witness ==
    /\ pc = "links"
    /\ step = "checkParent"
    /\ call.site = "link"
    /\ issues[i].issuelinks[j - 1].dir = "inward"
    /\ issues[i].issuelinks[j - 1].type.inward = "is child of"
    /\ call.type = "partof"

-----------------------------------------------------------------------------
(* The module state from one call of createRelationships to the next.      *)

\* a call of createRelationships is at the start of its first pass
FirstPassStarts ==
    /\ pc = "issue"
    /\ i = 1
    /\ step = "none"

\* what the calls so far have set for a key: the value of the last call that
\* passed the key
LastSet(key) ==
    LET passed == {n \in 1..Len(calls) : calls[n][key] # Undefined}
    IN IF passed = {}
       THEN Undefined
       ELSE calls[CHOOSE n \in passed : \A m \in passed : m <= n][key]

\* C15, as stated: at the start of the first pass of every call the mapping
\* holds exactly the entries the caller passed to that call, and nothing is
\* pending.
C15_StateReinitializedOnEveryCall ==
    FirstPassStarts =>
        /\ issueToWorkPackageMap = calls[Len(calls)]
        /\ missingRelationships = <<>>

\* C15, amended: at the start of the first pass of every call nothing is
\* pending, and the mapping holds the entries the caller passed to that call
\* together with the entries of the earlier calls for the keys this call did
\* not pass.
C15_MappingAccumulatesPendingEmpty ==
    FirstPassStarts =>
        /\ \A key \in Keys : issueToWorkPackageMap[key] = LastSet(key)
        /\ missingRelationships = <<>>

\* the second call starts without the key of an issue that the first call
\* had passed, after a first call that had deferred a relationship
C15_Witness ==
    /\ FirstPassStarts
    /\ Len(calls) = 2
    /\ calls[2]["PROJ-1"] = Undefined
    /\ calls[1]["PROJ-1"] = 7
    /\ calls[1]["PROJ-999"] = Undefined
    /\ issueToWorkPackageMap["PROJ-1"] = 7
    /\ \E x \in 1..Len(issues) : issues[x].epic = "PROJ-999"

-----------------------------------------------------------------------------
(* Check, then create.                                                     *)

\* what the oracle answered in the current call, from the answers it got
OracleReported == checkExistingRelationship(call.fromId, call.toId, call.wpOk, call.relOk)

\* C16: in every call of createRelationship the creation request follows the
\* oracle's requests of the same call and is made only when the oracle
\* reported no relation, and then once; a call in which the oracle reported a
\* relation ends with no creation request and the relations unchanged; at
\* most one relation is created, by the creation request.
C16_CheckThenCreate ==
    [][/\ step' = "checkParent" => step = "none"
       /\ step' = "query" => step = "checkParent"
       /\ step' = "post" => (step = "query" /\ ~OracleReported')
       /\ (step \in {"checkParent", "query"} /\ step' = "none")
             => (OracleReported' /\ outcome' = "exists" /\ relations' = relations)
       /\ (step = "query" /\ ~OracleReported') => step' = "post"
       /\ step = "post" =>
             /\ step' = "none"
             /\ outcome' \in {"created", "error"}
             /\ relations' \in {relations,
                                relations \cup {[from |-> call.fromId, to |-> call.toId,
                                                 type |-> call.type]}}
       /\ relations' # relations => (step = "post" /\ outcome' = "created")]_vars

\* a call ended with its relation created, after the two requests of the
\* oracle were answered with nothing found
C16_Witness ==
    /\ step = "none"
    /\ outcome = "created"
    /\ call.wpOk
    /\ call.relOk
    /\ [from |-> call.fromId, to |-> call.toId, type |-> call.type] \in relations
    /\ Cardinality(relations) = Cardinality(preexisting) + 1

-----------------------------------------------------------------------------
(* The retry pass.                                                         *)

\* C17: the retry pass replays the entries it took out of the Set one after
\* the other, each one once (the entries are distinct, and so many entries
\* taken, so many handled); no entry is put back, whether its keys do not
\* resolve or its creation fails, so nothing is pending while the retry pass
\* runs and when it has ended.
C17_NoSecondRetryRound ==
    /\ [](RetryPassBegun => missingRelationships = <<>>)
    /\ [](pc = "retry" =>
             /\ k \in 1..(Len(retryRelationships) + 1)
             /\ logged["stillMissing"] <= k - 1
             /\ \A m, n \in 1..Len(retryRelationships) :
                   retryRelationships[m] = retryRelationships[n] => m = n)
    /\ [][pc = "retry" =>
             /\ pc' \in {"retry", "return"}
             /\ retryRelationships' = retryRelationships
             /\ k' \in {k, k + 1}
             /\ pc' = "return" => k > Len(retryRelationships)
             /\ logged'["stillMissing"] \in {logged["stillMissing"],
                                             logged["stillMissing"] + 1}]_vars

\* the retry pass has ended after two entries that did not resolve, and
\* nothing is pending
C17_Witness ==
    /\ pc = "return"
    /\ Len(retryRelationships) = 2
    /\ k = 3
    /\ logged["stillMissing"] = 2
    /\ missingRelationships = <<>>

-----------------------------------------------------------------------------
(* The links whose target is not in the mapping.                           *)

\* handleRelationships is at a link of issues[i] whose key is not in the
\* mapping
LinkTargetMissing ==
    /\ pc = "links"
    /\ step = "none"
    /\ j <= Len(issues[i].issuelinks)
    /\ Falsy(issueToWorkPackageMap[issues[i].issuelinks[j].key])

\* handleRelationships is at the epic link of issues[i], and the epic is not
\* in the mapping
EpicMissing ==
    /\ pc = "epic"
    /\ step = "none"
    /\ issues[i].epic # NoEpic
    /\ Falsy(issueToWorkPackageMap[issues[i].epic])

\* no request is made, and the (current issue key, linked key, relation
\* type) of the link is pending after the step
LinkDeferred ==
    /\ step' = "none"
    /\ call' = call
    /\ PendingIn(missingRelationships', issues[i].key, issues[i].issuelinks[j].key,
                 relationType(issues[i].issuelinks[j]))

EpicDeferred ==
    /\ step' = "none"
    /\ call' = call
    /\ PendingIn(missingRelationships', issues[i].key, issues[i].epic, "partof")

\* what is pending stays pending as long as the first pass lasts
PendingKept ==
    (pc \in FirstPass /\ pc' \in FirstPass) =>
        /\ Len(missingRelationships') >= Len(missingRelationships)
        /\ SubSeq(missingRelationships', 1, Len(missingRelationships)) = missingRelationships

\* C18, as stated: handling a link, or an epic link, whose target key is not
\* in the mapping makes no request and leaves the triple of the link
\* pending, and it stays pending for the rest of the first pass.
C18_MissingTargetDeferred ==
    [][/\ LinkTargetMissing => LinkDeferred
       /\ EpicMissing => EpicDeferred
       /\ PendingKept]_vars

\* C18, amended: the same for the epic link and for every link that the
\* duplicate tie-break does not suppress; a suppressed link makes no request
\* and is not deferred either.
C18_MissingTargetDeferredUnlessSuppressed ==
    [][/\ (LinkTargetMissing /\ ~shouldSkip(issues[i], issues[i].issuelinks[j]))
             => LinkDeferred
       /\ (LinkTargetMissing /\ shouldSkip(issues[i], issues[i].issuelinks[j]))
             => (step' = "none" /\ call' = call
                 /\ missingRelationships' = missingRelationships)
       /\ EpicMissing => EpicDeferred
       /\ PendingKept]_vars

\* the link of the second issue has just been deferred, behind the epic link
\* of the first issue, with no request made for it
C18_Witness ==
    /\ pc = "links"
    /\ i = 2
    /\ j = 2
    /\ step = "none"
    /\ Falsy(issueToWorkPackageMap[issues[2].issuelinks[1].key])
    /\ Len(missingRelationships) = 2
    /\ missingRelationships[1] = JSONstringify(issues[1].key, issues[1].epic, "partof")
    /\ missingRelationships[2] =
          JSONstringify(issues[2].key, issues[2].issuelinks[1].key,
                        relationType(issues[2].issuelinks[1]))
    /\ logged["deferred"] = 2
    /\ logged["created"] + logged["exists"] + logged["createError"] = 0

-----------------------------------------------------------------------------
(* One request at a time.                                                  *)

\* the requests of the current call that have been answered
Answered ==
    CASE step = "checkParent" -> 0
      [] step = "query" -> 1
      [] step = "post" -> 2
      [] OTHER -> 0

\* C19: a run moves on (to the next link, the next issue, the retry pass, the
\* next entry, its end) only when no request is in flight, and a call is made
\* only then, so that at most one request is in flight; the request in flight
\* during the first pass is of a call for the issue the first pass is at, and
\* the requests of a call are made one after the other.
C19_OneRequestAtATime ==
    /\ [][/\ <<pc, i, j, k>>' # <<pc, i, j, k>> => step = "none"
          /\ call' # call => (step = "none" \/ call' = [call EXCEPT !.wpOk = call'.wpOk,
                                                                      !.relOk = call'.relOk])
          /\ (step # "none" /\ step' # "none") =>
                (Answered' = Answered + 1 /\ call'.fromKey = call.fromKey)]_vars
    /\ []((step # "none" /\ pc \in FirstPass) =>
             /\ pc = "links"
             /\ i \in 1..Len(issues)
             /\ call.fromKey = issues[i].key)

\* a request for the second issue is in flight, after a relation was created
\* for the first
C19_Witness ==
    /\ pc = "links"
    /\ i = 2
    /\ step = "post"
    /\ call.fromKey = issues[2].key
    /\ logged["created"] = 1
    /\ \E r \in relations : r.from = WorkPackageOf(issues[1].key)

-----------------------------------------------------------------------------
(* The order inside one issue: issues with several links.                 *)

\* links of one issue, in SpecOrder
MaxOrderLinks == 2

\* link facts of two link types
OrderFacts == {f \in LinkFacts : f.type.outward \in {"blocks", "is parent of"}}

OrderBatches ==
    BatchesOf(UNION {[1..n -> OrderFacts] : n \in 0..MaxOrderLinks},
              {[key \in Keys |-> 1]})

InitOrder ==
    /\ \E batch \in OrderBatches : Loaded(batch)
    /\ relations = {}
    /\ parentOf = [w \in WpIds |-> Undefined]

SpecOrder == InitOrder /\ [][Next]_vars


\* the step of handleRelationships for link n of issues[i]: it makes the call
\* for that link, defers that link, or skips it
HandlesLink(n) ==
    LET issue == issues[i]
        link == issue.issuelinks[n]
        triple == JSONstringify(issue.key, link.key, relationType(link))
    IN /\ step' = "checkParent" =>
             /\ call'.site = "link"
             /\ call'.fromKey = issue.key
             /\ call'.toKey = link.key
             /\ call'.type = relationType(link)
       /\ missingRelationships' # missingRelationships =>
             missingRelationships' = Append(missingRelationships, triple)
       /\ \/ step' = "checkParent"
          \/ PendingIn(missingRelationships', issue.key, link.key, relationType(link))
          \/ logged'["dupSkipped"] = logged["dupSkipped"] + 1

\* the step of handleRelationships for the epic link of issues[i]
HandlesEpic ==
    LET issue == issues[i]
    IN \/ /\ step' = "checkParent"
          /\ call'.site = "epic"
          /\ call'.fromKey = issue.key
          /\ call'.toKey = issue.epic
       \/ /\ step' = "none"
          /\ PendingIn(missingRelationships', issue.key, issue.epic, "partof")

\* C20: for an issue, handleRelationships first handles the epic link (when
\* there is one), with no link handled before, and then the links from the
\* first to the last, each step handling the link that follows the one
\* handled before; it leaves the issue when the last link has been handled.
C20_EpicThenLinksInOrder ==
    [][/\ (pc' = "links" /\ pc # "links") => pc = "epic"
       /\ pc = "epic" =>
             /\ pc' = "links" /\ i' = i /\ j' = 1
             /\ issues[i].epic # NoEpic => HandlesEpic
             /\ issues[i].epic = NoEpic
                   => (step' = "none" /\ missingRelationships' = missingRelationships)
       /\ (pc = "links" /\ step = "none" /\ j <= Len(issues[i].issuelinks)) =>
             /\ pc' = "links" /\ i' = i /\ j' = j + 1
             /\ HandlesLink(j)
       /\ (pc = "links" /\ pc' # "links") =>
             (j = Len(issues[i].issuelinks) + 1 /\ pc' = "issue" /\ i' = i + 1)]_vars

\* the call for the second link of an issue has begun, after the epic link
\* and the first link of the issue, which names another key, were handled
C20_Witness ==
    /\ pc = "links"
    /\ j = 3
    /\ step = "checkParent"
    /\ issues[i].epic # NoEpic
    /\ Len(issues[i].issuelinks) = 2
    /\ issues[i].issuelinks[1].key # issues[i].issuelinks[2].key
    /\ call.toKey = issues[i].issuelinks[2].key
    /\ i = 1
    /\ Handled = 2

-----------------------------------------------------------------------------
(* The writers of the mapping and of the Set.                              *)

\* a call of createRelationships begins
CallBegins == Len(calls') = Len(calls) + 1

\* C21: no step removes a key from the mapping, and the only step that
\* writes the mapping is the seeding at the entry of createRelationships;
\* the steps of handleRelationships, of createRelationship with its oracle,
\* and of retryMissingRelationships leave it as it is.
C21_MappingOnlyGrowsBySeeding ==
    [][/\ \A key \in Keys :
             issueToWorkPackageMap[key] # Undefined
                => issueToWorkPackageMap'[key] # Undefined
       /\ issueToWorkPackageMap' # issueToWorkPackageMap => CallBegins
       /\ CallBegins =>
             \A key \in Keys :
                 calls'[Len(calls')][key] # Undefined
                    => issueToWorkPackageMap'[key] = calls'[Len(calls')][key]]_vars

\* the retry pass of a second call has ended; the second call did not pass
\* the key of the first issue, which the mapping still holds, and passed the
\* key that the first call did not
C21_Witness ==
    /\ Len(calls) = 2
    /\ pc = "return"
    /\ calls[1]["PROJ-999"] = Undefined
    /\ calls[2]["PROJ-1"] = Undefined
    /\ issueToWorkPackageMap["PROJ-1"] = 7
    /\ issueToWorkPackageMap["PROJ-999"] = 99
    /\ logged["created"] + logged["exists"] >= 1


\* the relationships deferred so far in the first pass of the first call:
\* one console line for each
Deferrals == logged["deferred"]

\* C22: the Set holds every triple (fromKey, toKey, type) once, however many
\* times the first pass deferred it, so that the retry pass, which replays
\* what the Set held, takes every triple once: at its end it has logged one
\* "Still missing" line for each distinct triple deferred.
C22_PendingSetHoldsTripleOnce ==
    /\ \A m, n \in 1..Len(missingRelationships) :
          missingRelationships[m] = missingRelationships[n] => m = n
    /\ \A m, n \in 1..Len(retryRelationships) :
          retryRelationships[m] = retryRelationships[n] => m = n
    /\ (pc \in FirstPass /\ Len(calls) = 1) => Len(missingRelationships) <= Deferrals
    /\ (pc = "return" /\ Len(calls) = 1) =>
          /\ Len(retryRelationships) <= Deferrals
          /\ logged["stillMissing"] = Len(retryRelationships)
          /\ Len(retryRelationships) = Cardinality(MissingForever)

\* the retry pass has ended: the epic link and the "is child of" link of one
\* issue had both been deferred as "partof" to the same key, and the one
\* entry was replayed once
C22_Witness ==
    /\ pc = "return"
    /\ Len(calls) = 1
    /\ Deferrals = 2
    /\ Len(retryRelationships) = 1
    /\ retryRelationships[1].type = "partof"
    /\ logged["stillMissing"] = 1

-----------------------------------------------------------------------------
(* The oracle when its requests fail.                                      *)

\* the request in flight fails
RequestFails == failures' = failures + 1

-----------------------------------------------------------------------------
(* The issues that are not in the mapping.                                 *)

\* the entries with the key of an issue that the mapping does not hold
OfUnmappedSource(entries) ==
    {n \in 1..Len(entries) : issueToWorkPackageMap[entries[n][2]] = Undefined}

\* C24: handleRelationships, called for an issue whose key is not in the
\* mapping, returns with no request made, nothing added to the Set and
\* nothing logged; and in no state of a run is there a call, a pending entry
\* or a replayed entry that starts from an issue whose key is not in the
\* mapping, nor a relation created from the work package of such an issue.
C24_UnmappedSourceIgnored ==
    /\ [][(pc = "issue" /\ i <= Len(issues) /\ step = "none"
              /\ issueToWorkPackageMap[issues[i].key] = Undefined) =>
             /\ pc' = "issue"
             /\ i' = i + 1
             /\ step' = "none"
             /\ UNCHANGED <<call, missingRelationships, relations, logged>>]_vars
    /\ [](Len(calls) = 1 =>
             /\ call.fromKey # "" => issueToWorkPackageMap[call.fromKey] # Undefined
             /\ OfUnmappedSource(missingRelationships) = {}
             /\ OfUnmappedSource([n \in 1..Len(retryRelationships) |->
                    JSONstringify(retryRelationships[n].fromKey,
                                  retryRelationships[n].toKey,
                                  retryRelationships[n].type)]) = {}
             /\ \A x \in 1..Len(issues) :
                   calls[1][issues[x].key] = Undefined =>
                      \A r \in relations \ preexisting :
                          r.from # WorkPackageOf(issues[x].key))

\* the run is over; the first issue, with an epic link and a link, was not
\* in the mapping, and nothing was created, deferred or logged for it
C24_Witness ==
    /\ pc = "done"
    /\ Len(calls) = 1
    /\ calls[1][issues[1].key] = Undefined
    /\ issues[1].epic # NoEpic
    /\ Len(issues[1].issuelinks) = 1
    /\ issues[1].issuelinks[1].key = OutsideKey
    /\ issues[2].epic = NoEpic
    /\ Len(issues[2].issuelinks) = 0
    /\ Handled = 0
    /\ relations = preexisting
    /\ logged["stillMissing"] = 0

-----------------------------------------------------------------------------
(* The duplicate links that the tie-break suppresses.                      *)

\* handleRelationships is at a link of issues[i]
AtLink ==
    /\ pc = "links"
    /\ step = "none"
    /\ j <= Len(issues[i].issuelinks)

\* C25: the step of handleRelationships for a duplicate link that the
\* tie-break suppresses (outward "duplicates" from an issue created after
\* the linked one, inward "is duplicated by" on an issue created before the
\* linked one) makes no request, adds nothing to the Set and creates
\* nothing, whether or not the key of the linked issue is in the mapping; it
\* logs the skip and goes to the next link.
C25_SuppressedLinkNeitherCreatedNorDeferred ==
    [][LET issue == issues[i]
           link == issues[i].issuelinks[j]
           suppressed ==
               \/ /\ link.dir = "outward"
                  /\ link.type.outward = "duplicates"
                  /\ issue.created > link.created
               \/ /\ link.dir = "inward"
                  /\ link.type.inward = "is duplicated by"
                  /\ issue.created < link.created
       IN (AtLink /\ suppressed) =>
             /\ step' = "none"
             /\ j' = j + 1
             /\ logged' = [logged EXCEPT !["dupSkipped"] = @ + 1]
             /\ UNCHANGED <<call, missingRelationships, relations, pc, i>>]_vars

\* the first pass is over: the one link of the batch, an outward
\* "duplicates" link of the second issue to the key that is not in the
\* mapping, was suppressed, and nothing is pending
C25_Witness ==
    /\ pc = "issue"
    /\ i = 3
    /\ Len(calls) = 1
    /\ Len(issues[2].issuelinks) = 1
    /\ issues[2].issuelinks[1].dir = "outward"
    /\ issues[2].issuelinks[1].type.outward = "duplicates"
    /\ calls[1][issues[2].issuelinks[1].key] = Undefined
    /\ issues[2].created > issues[2].issuelinks[1].created
    /\ issues[1].epic = NoEpic
    /\ issues[2].epic = NoEpic
    /\ logged["dupSkipped"] = 1
    /\ missingRelationships = <<>>
    /\ Handled = 1

-----------------------------------------------------------------------------
(* Termination.                                                            *)

\* every request returns, and the run takes its next step when it can
SpecTerminates == Init /\ [][Next]_vars /\ WF_vars(Next)

\* C26: every run of createRelationships ends, whatever requests fail; and
\* when it has ended, the first pass has handled every epic link and link of
\* the mapped issues once, and nothing is pending.
C26_RunTerminates ==
    /\ <>(pc = "done")
    /\ [](pc = "done" => (Handled = ToHandle /\ missingRelationships = <<>>))

\* a run has ended in which a request failed, links were handled in the
\* first pass and an entry was replayed in the retry pass
C26_Witness ==
    /\ pc = "done"
    /\ result = <<>>
    /\ failures = 1
    /\ logged["createError"] = 1
    /\ logged["stillMissing"] >= 1
    /\ logged["created"] >= 1

-----------------------------------------------------------------------------
(* migrateIssues: the loop over the Jira issues that creates or updates    *)
(* one work package per issue and returns the key -> id Map that           *)
(* createRelationships is later given.  The requests it awaits are the     *)
(* environment: each returns or throws.                                    *)

\* issues of one migration
MaxIssues == 3

\* no work package: null or undefined
NoWorkPackage == [id |-> Undefined]

\* the work packages the target project can hold before the migration: for
\* every issue key none, or the one carrying that key
HeldWorkPackages ==
    {[key \in Keys |-> IF key \in present THEN [id |-> WorkPackageOf(key)]
                                          ELSE NoWorkPackage] :
        present \in SUBSET Keys}

\* the batches: every issue once, in any order
JiraBatches ==
    {batch \in UNION {[1..len -> Keys] : len \in 0..MaxIssues} :
        \A a, b \in DOMAIN batch : batch[a] = batch[b] => a = b}

\* Map.has
Has(map, key) == key \in DOMAIN map

\* the Map left as it was
NeverSet(map, key, id) == map

\* Map.set of the local Map
LocalSet(map, key, id) ==
    [x \in DOMAIN map \cup {key} |-> IF x = key THEN id ELSE map[x]]

\* the issue of this iteration
Issue == jiraIssues[at]

\* the catch block is inside the loop body: the for statement goes on
AfterCatch == "loop"

\* catch (error) { console.error(...); errors++ }
Catch ==
    /\ errors' = errors + 1
    /\ console' = Append(console, <<"Error processing", Issue>>)
    /\ mpc' = AfterCatch
    /\ UNCHANGED <<processed, skipped, migratedMap, existingWorkPackage, workPackages,
                   written>>

\* for (const issue of jiraIssues) { try { console.log(`Processing ...`)
NextIssue ==
    /\ mpc = "loop"
    /\ at < Len(jiraIssues)
    /\ at' = at + 1
    /\ mpc' = "find"
    /\ console' = Append(console, <<"Processing", jiraIssues[at + 1]>>)
    /\ existingWorkPackage' = NoWorkPackage
    /\ UNCHANGED <<serverVars, passVars, call, step, outcome, logged, failures>>
    /\ UNCHANGED <<jiraIssues, skipUpdates, openProjectWorkPackagesCache, workPackages,
                   written, processed, skipped, errors, migratedMap>>

\* the look-up of the existing work package, in the cache or on the server,
\* and the branch that skips an issue already migrated
FindExisting ==
    /\ mpc = "find"
    /\ \E ok \in {TRUE} \cup {answered \in {FALSE} : ~skipUpdates} :
         IF ~ok
         THEN Catch
         ELSE LET found == IF skipUpdates
                           THEN openProjectWorkPackagesCache[Issue]
                           ELSE workPackages[Issue]
              IN  IF found # NoWorkPackage /\ skipUpdates
                  THEN /\ console' = Append(console, <<"Skipping", Issue>>)
                       /\ migratedMap' = LocalSet(migratedMap, Issue, found.id)
                       /\ skipped' = skipped + 1
                       /\ mpc' = "loop"
                       /\ UNCHANGED <<existingWorkPackage, processed, errors,
                                      workPackages, written>>
                  ELSE /\ existingWorkPackage' = found
                       /\ mpc' = "write"
                       /\ UNCHANGED <<console, migratedMap, processed, skipped, errors,
                                      workPackages, written>>
    /\ UNCHANGED <<serverVars, passVars, call, step, outcome, logged, failures>>
    /\ UNCHANGED <<jiraIssues, skipUpdates, openProjectWorkPackagesCache, at>>

\* the payload is built and createWorkPackage or updateWorkPackage is awaited;
\* when it returns, the key is set in the Map
WriteWorkPackage ==
    /\ mpc = "write"
    /\ \E ok \in BOOLEAN :
         IF ~ok
         THEN Catch
         ELSE LET workPackage == IF existingWorkPackage # NoWorkPackage
                                 THEN existingWorkPackage
                                 ELSE [id |-> WorkPackageOf(Issue)]
              IN  /\ workPackages' = [workPackages EXCEPT ![Issue] = workPackage]
                  /\ written' = written \cup {Issue}
                  /\ migratedMap' = LocalSet(migratedMap, Issue, workPackage.id)
                  /\ mpc' = "rest"
                  /\ UNCHANGED <<console, existingWorkPackage, processed, skipped,
                                 errors>>
    /\ UNCHANGED <<serverVars, passVars, call, step, outcome, logged, failures>>
    /\ UNCHANGED <<jiraIssues, skipUpdates, openProjectWorkPackagesCache, at>>

\* attachments, comments and watchers of the issue, then processed++
RestOfIssue ==
    /\ mpc = "rest"
    /\ \E ok \in BOOLEAN :
         IF ~ok
         THEN Catch
         ELSE /\ processed' = processed + 1
              /\ mpc' = "loop"
              /\ UNCHANGED <<console, existingWorkPackage, skipped, errors, migratedMap,
                             workPackages, written>>
    /\ UNCHANGED <<serverVars, passVars, call, step, outcome, logged, failures>>
    /\ UNCHANGED <<jiraIssues, skipUpdates, openProjectWorkPackagesCache, at>>

\* after the loop: the summary, and return issueToWorkPackageMap
ReturnMap ==
    /\ mpc = "loop"
    /\ at = Len(jiraIssues)
    /\ mpc' = "returned"
    /\ result' = <<migratedMap>>
    /\ UNCHANGED <<serverVars, issueToWorkPackageMap, missingRelationships, issues,
                   calls, pc, i, j, retryRelationships, k, call, step, outcome, logged,
                   failures>>
    /\ UNCHANGED <<jiraIssues, skipUpdates, openProjectWorkPackagesCache, workPackages,
                   written, at, existingWorkPackage, processed, skipped, errors,
                   migratedMap, console>>

\* migrateIssues at the head of its loop, for any batch, either value of
\* skipUpdates and any work packages in the target project
InitMigrate ==
    /\ \E batch \in JiraBatches, flag \in BOOLEAN, held \in HeldWorkPackages :
         LoopEntry("loop", batch, flag, held)
    /\ relations = {}
    /\ preexisting = relations
    /\ parentOf = [w \in WpIds |-> Undefined]
    /\ issueToWorkPackageMap = [key \in Keys |-> Undefined]
    /\ missingRelationships = <<>>
    /\ issues = <<>>
    /\ calls = <<>>
    /\ pc = "migrate"
    /\ i = 0
    /\ j = 0
    /\ retryRelationships = <<>>
    /\ k = 0
    /\ call = NoCall
    /\ step = "none"
    /\ outcome = "none"
    /\ logged = NoLines
    /\ failures = 0
    /\ result = <<"pending">>

NextMigrate ==
    \/ NextIssue
    \/ FindExisting
    \/ WriteWorkPackage
    \/ RestOfIssue
    \/ ReturnMap

SpecMigrate == InitMigrate /\ [][NextMigrate]_vars

-----------------------------------------------------------------------------
(* C27: the accounting of migrateIssues.                                   *)

\* the issues whose iteration has ended
Ended == IF mpc \in {"loop", "returned"} THEN at ELSE at - 1

\* the keys printed with a line of that kind
Printed(kind) == {console[x][2] : x \in {y \in DOMAIN console : console[y][1] = kind}}

\* this step ends the iteration of an issue
IterationEnds == mpc \in {"find", "write", "rest"} /\ mpc' = "loop"

\* C27: in migrateIssues every issue ends in exactly one of the outcomes
\* processed, skipped or error: the step that ends an iteration adds one to
\* exactly one of the three counters, no other step changes them, and
\* processed + skipped + errors is the number of issues when the loop has
\* ended; the iteration after a failed one is still taken, so that the
\* function returns only when every issue had its iteration; and the returned
\* Map has an entry for every issue skipped as already existing and for every
\* issue whose createWorkPackage or updateWorkPackage call returned, whether
\* or not a later request for that issue failed.
C27_EveryIssueAccountedFor ==
    /\ [][/\ IterationEnds =>
               \/ /\ processed' = processed + 1
                  /\ UNCHANGED <<skipped, errors>>
               \/ /\ skipped' = skipped + 1
                  /\ UNCHANGED <<processed, errors>>
               \/ /\ errors' = errors + 1
                  /\ UNCHANGED <<processed, skipped>>
          /\ ~IterationEnds => UNCHANGED <<processed, skipped, errors>>
          /\ errors' = errors + 1 => (mpc' = "loop" /\ at' = at)
          /\ \A key \in DOMAIN migratedMap : Has(migratedMap', key)]_vars
    /\ [](processed + skipped + errors = Ended)
    /\ [](skipped = Cardinality(Printed("Skipping")))
    /\ [](errors = Cardinality(Printed("Error processing")))
    /\ [](mpc = "returned" =>
            /\ at = Len(jiraIssues)
            /\ processed + skipped + errors = Len(jiraIssues)
            /\ \A key \in Printed("Skipping") \cup written : Has(result[1], key))

\* the loop has ended over three issues, one skipped as existing, one
\* processed, and one whose work package was written before a later request
\* failed: its key is in the returned Map although it counts as an error
C27_Witness ==
    /\ mpc = "returned"
    /\ Len(jiraIssues) = 3
    /\ processed = 1
    /\ skipped = 1
    /\ errors = 1
    /\ \E key \in written : key \in Printed("Error processing")

====
